---- MODULE Spec2Model ----
(***************************************************************************)
(* lockr: the secret store client (internal/ssm/client.go) and the write  *)
(* command (cmd/list.go, runWrite and buildPath), run against a model of  *)
(* the remote parameter store.                                            *)
(*                                                                         *)
(* Strings the code takes apart (paths, tag specifications) are sequences *)
(* of one-character strings; opaque strings (secret values, error kinds)  *)
(* are TLA+ strings.                                                       *)
(***************************************************************************)
EXTENDS Integers, Sequences, FiniteSets, TLC

\* ------------------------------------------------------------------ bounds
\* The store's per-path version counter is capped: a write is started only
\* on a path whose version is below MaxVersion.
MaxVersion == 2
\* The remote store splits a listing into at most MaxPages pages.
MaxPages == 3
\* The path resolver is explored on every input, prefix and env of at most
\* MaxLen characters.
MaxLen == 3

\* ----------------------------------------------------------------- strings
Slash == <<"/">>

\* strings.HasPrefix
HasPrefix(s, pre) ==
    /\ Len(s) >= Len(pre)
    /\ SubSeq(s, 1, Len(pre)) = pre

RECURSIVE TrimLeft(_, _)
TrimLeft(s, c) ==
    IF s # <<>> /\ Head(s) = c THEN TrimLeft(Tail(s), c) ELSE s

RECURSIVE TrimRight(_, _)
TrimRight(s, c) ==
    IF s # <<>> /\ s[Len(s)] = c THEN TrimRight(SubSeq(s, 1, Len(s) - 1), c) ELSE s

\* strings.Trim(s, "/") with a one-character cutset
Trim(s, c) == TrimRight(TrimLeft(s, c), c)

\* strings.Join(parts, sep)
RECURSIVE Join(_, _)
Join(parts, sep) ==
    IF parts = <<>> THEN <<>>
    ELSE IF Len(parts) = 1 THEN parts[1]
    ELSE parts[1] \o sep \o Join(Tail(parts), sep)

\* position of the first occurrence of character c in s, 0 when there is none
IndexOf(s, c) ==
    IF \E i \in 1..Len(s) : s[i] = c
    THEN CHOOSE i \in 1..Len(s) : s[i] = c /\ \A j \in 1..(i - 1) : s[j] # c
    ELSE 0

\* Faulty variant of SplitN2: a string with more than one separator is not
\* split.
SplitN2_Strict(s, c) ==
    IF Cardinality({ i \in 1..Len(s) : s[i] = c }) # 1 THEN <<s>>
    ELSE LET i == IndexOf(s, c)
         IN  <<SubSeq(s, 1, i - 1), SubSeq(s, i + 1, Len(s))>>

\* strings.SplitN(s, "=", 2): at most two parts, split at the first "="
SplitN2(s, c) ==
    LET i == IndexOf(s, c)
    IN  IF i = 0 THEN <<s>>
        ELSE <<SubSeq(s, 1, i - 1), SubSeq(s, i + 1, Len(s))>>

\* ----------------------------------------------------------- configuration
\* The merged configuration snapshot an invocation runs with (cfg).
CfgSet ==
    { [prefix |-> <<>>,          env |-> <<>>,    kmsKey |-> "alias/aws/ssm"],
      [prefix |-> <<"/","a","/">>, env |-> <<>>,  kmsKey |-> ""],
      [prefix |-> <<>>,          env |-> <<"a">>, kmsKey |-> "alias/aws/ssm"] }

\* The path argument of a command line.
PathArgs == { <<"/","a">>, <<"a">> }

\* Faulty variant of IsAbsolute: no input bypasses the templating.
IsAbsolute_Never(input) == FALSE

\* The input is a full path.
IsAbsolute(input) == HasPrefix(input, Slash)

\* Faulty variant of JoinRooted: the leading slash is left out.
JoinRooted_Bare(parts) == Join(parts, Slash)

\* The segments joined into a path.
JoinRooted(parts) == Slash \o Join(parts, Slash)

buildPath(input, cfg) ==
    IF IsAbsolute(input) THEN input
    ELSE LET parts ==
                (IF cfg.prefix # <<>> THEN <<Trim(cfg.prefix, "/")>> ELSE <<>>)
             \o (IF cfg.env # <<>> THEN <<cfg.env>> ELSE <<>>)
             \o <<input>>
         IN  JoinRooted(parts)

\* The keys of the store, in the store's natural (lexicographic) order: the
\* paths the command lines above resolve to, /a and /a/a, and two more that
\* other users of the store have written, /a/b and /b.
PathOrder ==
    << <<"/","a">>, <<"/","a","/","a">>, <<"/","a","/","b">>, <<"/","b">> >>

Paths == { PathOrder[i] : i \in 1..Len(PathOrder) }

\* --------------------------------------------------------------- the inputs
ValueArgs == { "", "v1", "v2" }

\* --tag arguments of one command line
TagArgs ==
    { <<>>,
      << <<"o","=","x">> >>,
      << <<"o","=","x","=","y">>, <<"e","=","x">> >>,
      << <<"o">> >> }

\* runWrite's tag loop: the map built from the first i specifications, or
\* "invalid" as soon as one of them has no "=".  A tag map is a set of
\* <<key, value>> pairs with one pair per key.
SetTag(m, k, v) == { t \in m : t[1] # k } \cup { <<k, v>> }

RECURSIVE ParseTagsFrom(_, _)
ParseTagsFrom(specs, m) ==
    IF specs = <<>> THEN [ok |-> TRUE, tags |-> m]
    ELSE LET parts == SplitN2(Head(specs), "=")
         IN  IF Len(parts) # 2 THEN [ok |-> FALSE, tags |-> {}]
             ELSE ParseTagsFrom(Tail(specs), SetTag(m, parts[1], parts[2]))

ParseTags(specs) == ParseTagsFrom(specs, {})

\* ------------------------------------------------------------ remote store
Absent == [present |-> FALSE, value |-> "", version |-> 0, tags |-> {}]

\* PutParameter as the store executes it.  Overwrite unset means false.  The
\* store refuses tags together with overwrite.  A new parameter gets version
\* 1 and the tags of the request; an overwritten one keeps its tags.
PutOutcome(st, in) ==
    IF in.overwrite /\ in.tags # {} THEN "Other"
    ELSE IF st[in.path].present /\ ~in.overwrite THEN "AlreadyExists"
    ELSE "ok"

\* Faulty variant of PutEffect: the version is not advanced on overwrite.
PutEffect_KeepVersion(st, in) ==
    [st EXCEPT ![in.path] =
        [present |-> TRUE,
         value   |-> in.value,
         version |-> IF st[in.path].present THEN st[in.path].version ELSE 1,
         tags    |-> IF st[in.path].present THEN st[in.path].tags ELSE in.tags]]

PutEffect(st, in) ==
    [st EXCEPT ![in.path] =
        [present |-> TRUE,
         value   |-> in.value,
         version |-> st[in.path].version + 1,
         tags    |-> IF st[in.path].present THEN st[in.path].tags ELSE in.tags]]

\* AddTagsToResource: the given keys are set, the other keys are kept.
MergeTags(old, new) ==
    { t \in old : \A n \in new : n[1] # t[1] } \cup new

AddTagsOutcome(st, path) ==
    IF st[path].present THEN "ok" ELSE "Other"

AddTagsEffect(st, path, tags) ==
    [st EXCEPT ![path].tags = MergeTags(st[path].tags, tags)]

\* What the store holds of a value that is read without decryption.
Encrypt(v) == IF v = "v1" THEN "c1" ELSE IF v = "v2" THEN "c2" ELSE "c0"

\* GetParameter
GetOutcome(st, path) ==
    IF st[path].present THEN "ok" ELSE "NotFound"

GetResult(st, path, decrypt) ==
    [name    |-> path,
     value   |-> IF decrypt THEN st[path].value ELSE Encrypt(st[path].value),
     type    |-> "SecureString",
     version |-> st[path].version]

\* ListTagsForResource
ListTagsOutcome(st, path) ==
    IF st[path].present THEN "ok" ELSE "Other"

\* GetParametersByPath: q lies in the hierarchy below root, at any depth
\* when recursive and one level down otherwise.
Under(q, root, recursive) ==
    LET base == IF root = Slash THEN root ELSE root \o Slash
        rest == SubSeq(q, Len(base) + 1, Len(q))
    IN  /\ HasPrefix(q, base)
        /\ rest # <<>>
        /\ recursive \/ \A i \in 1..Len(rest) : rest[i] # "/"

\* The whole listing of a path, in the store's order, values not decrypted.
StoreListing(st, root, recursive) ==
    LET hit(q) == st[q].present /\ Under(q, root, recursive)
        names  == SelectSeq(PathOrder, hit)
    IN  [i \in 1..Len(names) |-> GetResult(st, names[i], FALSE)]

\* DeleteParameter
DeleteOutcome(st, path) ==
    IF st[path].present THEN "ok" ELSE "NotFound"

DeleteEffect(st, path) == [st EXCEPT ![path] = Absent]

\* -------------------------------------------------------------------- state
Procs == {1, 2}
\* The invocations that run in the sequential specification.
MainProcs == {1}

VARIABLES
    store,   \* the remote store: path -> parameter
    pc,      \* per invocation: the step it is at
    args,    \* per invocation: the operation and its arguments
    calls,   \* per invocation: the remote calls issued so far, with outcomes
    ret,     \* per invocation: what the operation returned
    pre,     \* per invocation: the store when the invocation started
    loc,     \* per invocation: local variables of the running operation
    last,    \* the last write that ended, when it succeeded
    px       \* a function of the command line under evaluation on its own

vars == <<store, pc, args, calls, ret, pre, loc, last, px>>

NoSecret ==
    [some |-> FALSE, name |-> <<>>, value |-> "", type |-> "", version |-> 0,
     tags |-> {}]

NoArgs ==
    [op |-> "none", path |-> <<>>, value |-> "", specs |-> <<>>, tags |-> {},
     overwrite |-> FALSE, kmsKey |-> "", recursive |-> FALSE,
     interactive |-> FALSE, output |-> "text"]

NoRet == [err |-> "", secret |-> NoSecret, list |-> <<>>, found |-> FALSE]

\* nextToken 0 is the nil token.  cursor is the store's side of a listing:
\* how many items it has handed out so far.  report is what the command has
\* printed, selector what became of the interactive selector ("none": it was
\* not shown), selected the name it returned.
NoLoc ==
    [secret |-> NoSecret, secrets |-> <<>>, firstPage |-> FALSE,
     nextToken |-> 0, cursor |-> 0,
     report |-> "", selector |-> "none", selected |-> <<>>]

\* last remembers a write that succeeded, until the next write ends or its
\* path is deleted.
NoLast ==
    [op |-> "none", path |-> <<>>, value |-> "", tags |-> {}, fresh |-> FALSE]

EmptyStore == [q \in Paths |-> Absent]

\* No function is under evaluation.
NoPx == [fn |-> "none"]

\* One remote call as it went over the wire.  keyId "" is an unset KeyId.
Call(op, path) ==
    [op |-> op, path |-> path, value |-> "", overwrite |-> FALSE, tags |-> {},
     keyId |-> "", decrypt |-> FALSE, recursive |-> FALSE, token |-> 0,
     items |-> <<>>, more |-> FALSE, res |-> ""]

Init ==
    /\ store = EmptyStore
    /\ pc = [p \in Procs |-> "idle"]
    /\ args = [p \in Procs |-> NoArgs]
    /\ calls = [p \in Procs |-> <<>>]
    /\ ret = [p \in Procs |-> NoRet]
    /\ pre = [p \in Procs |-> EmptyStore]
    /\ loc = [p \in Procs |-> NoLoc]
    /\ last = NoLast
    /\ px = NoPx

Ready(p) == pc[p] = "idle"

\* An operation returns: its result is recorded and the invocation is over.
Return(p, r) ==
    /\ pc' = [pc EXCEPT ![p] = "done"]
    /\ ret' = [ret EXCEPT ![p] = r]

\* ListSecrets returns r: to the command that called it, when one did.
ListReturn(p, r) ==
    /\ pc' = [pc EXCEPT ![p] = IF args[p].op = "list" THEN "done" ELSE "listed"]
    /\ ret' = [ret EXCEPT ![p] = r]

\* ---------------------------------------------------------------- runWrite
\* Faulty variant of PutInput: the tags ride on the put.
PutInput_WithTags(a, ow) ==
    [path |-> a.path, value |-> a.value, overwrite |-> ow, tags |-> a.tags,
     keyId |-> IF a.kmsKey # "" THEN a.kmsKey ELSE ""]

\* The PutParameterInput WriteSecret builds: Tags is never set on it, and
\* KeyId is set when kmsKey is not empty (keyId "" is the unset KeyId).
PutInput(a, ow) ==
    [path |-> a.path, value |-> a.value, overwrite |-> ow, tags |-> {},
     keyId |-> IF a.kmsKey # "" THEN a.kmsKey ELSE ""]

PutCall(in, res) ==
    [Call("PutParameter", in.path) EXCEPT
        !.value = in.value, !.overwrite = in.overwrite, !.tags = in.tags,
        !.keyId = in.keyId, !.res = res]

\* Faulty variant of WriteEntry: the two-step path is taken without tags too.
WriteEntry_Always(tags) == "w_put1"

\* WriteSecret's branch on len(tags) > 0
WriteEntry(tags) == IF Cardinality(tags) > 0 THEN "w_put1" ELSE "w_put"

\* Faulty variant of ValueRejected: the check is missing.
ValueRejected_Never(value) == FALSE

\* runWrite's check of the value, made before the tags are parsed.
ValueRejected(value) == value = ""

\* Faulty variants of RetryOnExists: the overwrite argument is not looked at; the
\* kind of the error is not looked at.
RetryOnExists_IgnoreFlag(res, overwrite) == res = "AlreadyExists"
RetryOnExists_AnyError(res, overwrite) == res # "ok" /\ overwrite

\* WriteSecret retries the put when the first one failed with
\* ParameterAlreadyExists and overwrite is set.
RetryOnExists(res, overwrite) == res = "AlreadyExists" /\ overwrite

\* Faulty variant of RetryOverwrite: the retry is sent as the first put was.
RetryOverwrite_Unset == FALSE

\* The Overwrite flag of the retry.
RetryOverwrite == TRUE

\* Faulty variant of ErrOf: the error is dropped.
ErrOf_Dropped(res) == ""

\* An SDK call's error as the client returns it: "" is nil.
ErrOf(res) == IF res = "ok" THEN "" ELSE res

\* runWrite up to the call of WriteSecret: the path is resolved, the value
\* is checked, the tags are parsed.
RunWrite(p) ==
    /\ Ready(p)
    /\ \E arg \in PathArgs, c \in CfgSet, value \in ValueArgs,
          writeTags \in TagArgs, ow \in BOOLEAN :
        LET path   == buildPath(arg, c)
            parsed == ParseTags(writeTags)
            reject == ValueRejected(value) \/ ~parsed.ok
            a      == [op |-> IF reject THEN "rejected" ELSE "write",
                       path |-> path, value |-> value,
                       specs |-> writeTags,
                       tags |-> parsed.tags, overwrite |-> ow,
                       kmsKey |-> c.kmsKey, recursive |-> FALSE,
                       interactive |-> FALSE, output |-> "text"]
        IN  /\ args' = [args EXCEPT ![p] = a]
            /\ calls' = [calls EXCEPT ![p] = <<>>]
            /\ pre' = [pre EXCEPT ![p] = store]
            /\ loc' = [loc EXCEPT ![p] = NoLoc]
            /\ last' = last
            /\ IF reject
               THEN Return(p, [NoRet EXCEPT !.err = "InvalidInput"])
               ELSE /\ store[path].version < MaxVersion
                    /\ pc' = [pc EXCEPT ![p] = WriteEntry(parsed.tags)]
                    /\ ret' = [ret EXCEPT ![p] = NoRet]
    /\ UNCHANGED store
    /\ UNCHANGED px

\* A remote call either fails in transit ("Other", no effect on the store)
\* or is executed by the store.
Outcomes(natural) == { natural, "Other" }

\* Faulty variant of FirstPutFailed: the error of the first put is not
\* looked at.
FirstPutFailed_Ignored(res) == FALSE

\* The first put returned an error (err != nil).
FirstPutFailed(res) == res # "ok"

\* WriteSecret, tags given: the first PutParameter, Overwrite unset.
WPut1(p) ==
    /\ pc[p] = "w_put1"
    /\ LET in == PutInput(args[p], FALSE)
       IN  \E res \in Outcomes(PutOutcome(store, in)) :
            /\ calls' = [calls EXCEPT ![p] = Append(@, PutCall(in, res))]
            /\ store' = IF res = "ok" THEN PutEffect(store, in) ELSE store
            /\ IF ~FirstPutFailed(res)
               THEN /\ pc' = [pc EXCEPT ![p] = "w_tags"]
                    /\ UNCHANGED ret
               ELSE IF RetryOnExists(res, args[p].overwrite)
               THEN /\ pc' = [pc EXCEPT ![p] = "w_put2"]
                    /\ UNCHANGED ret
               ELSE Return(p, [NoRet EXCEPT !.err = res])
    /\ UNCHANGED <<args, pre, loc, last>>
    /\ UNCHANGED px

\* Faulty variant of RetryFailed: the error of the retry is not looked at.
RetryFailed_Ignored(res) == FALSE

\* The retry returned an error (err != nil).
RetryFailed(res) == res # "ok"

\* WriteSecret, tags given: the retry with Overwrite = true.
WPut2(p) ==
    /\ pc[p] = "w_put2"
    /\ LET in == PutInput(args[p], RetryOverwrite)
       IN  \E res \in Outcomes(PutOutcome(store, in)) :
            /\ calls' = [calls EXCEPT ![p] = Append(@, PutCall(in, res))]
            /\ store' = IF res = "ok" THEN PutEffect(store, in) ELSE store
            /\ IF ~RetryFailed(res)
               THEN /\ pc' = [pc EXCEPT ![p] = "w_tags"]
                    /\ UNCHANGED ret
               ELSE Return(p, [NoRet EXCEPT !.err = res])
    /\ UNCHANGED <<args, pre, loc, last>>
    /\ UNCHANGED px

\* SetTags: one AddTagsToResource, whose outcome is returned.
SetTags(p) ==
    /\ pc[p] = "w_tags"
    /\ \E res \in Outcomes(AddTagsOutcome(store, args[p].path)) :
        /\ calls' = [calls EXCEPT ![p] =
                Append(@, [Call("AddTagsToResource", args[p].path) EXCEPT
                              !.tags = args[p].tags, !.res = res])]
        /\ store' = IF res = "ok"
                    THEN AddTagsEffect(store, args[p].path, args[p].tags)
                    ELSE store
        /\ Return(p, [NoRet EXCEPT !.err = ErrOf(res)])
    /\ UNCHANGED <<args, pre, loc, last>>
    /\ UNCHANGED px

\* WriteSecret, no tags: one PutParameter with Overwrite = overwrite.
WPut(p) ==
    /\ pc[p] = "w_put"
    /\ LET in == PutInput(args[p], args[p].overwrite)
       IN  \E res \in Outcomes(PutOutcome(store, in)) :
            /\ calls' = [calls EXCEPT ![p] = Append(@, PutCall(in, res))]
            /\ store' = IF res = "ok" THEN PutEffect(store, in) ELSE store
            /\ Return(p, [NoRet EXCEPT !.err = ErrOf(res)])
    /\ UNCHANGED <<args, pre, loc, last>>
    /\ UNCHANGED px

\* -------------------------------------------------------------- ReadSecret
\* The path of a read, list or delete command: buildPath of its argument.
ReadSecretStart(p) ==
    /\ Ready(p)
    /\ \E arg \in PathArgs, c \in CfgSet :
        /\ args' = [args EXCEPT ![p] =
                [NoArgs EXCEPT !.op = "read", !.path = buildPath(arg, c)]]
    /\ pc' = [pc EXCEPT ![p] = "r_get"]
    /\ calls' = [calls EXCEPT ![p] = <<>>]
    /\ ret' = [ret EXCEPT ![p] = NoRet]
    /\ pre' = [pre EXCEPT ![p] = store]
    /\ loc' = [loc EXCEPT ![p] = NoLoc]
    /\ UNCHANGED <<store, last>>
    /\ UNCHANGED px

\* The Secret ReadSecret builds from the GetParameter result: no tags yet.
SecretOf(param) ==
    [some |-> TRUE, name |-> param.name, value |-> param.value,
     type |-> param.type, version |-> param.version, tags |-> {}]

\* Faulty variant of ReadDecrypt: the value is fetched as stored.
ReadDecrypt_Off == FALSE

\* The WithDecryption flag of ReadSecret's GetParameter.
ReadDecrypt == TRUE

\* ReadSecret: GetParameter; an error is returned with no Secret.
RGet(p) ==
    /\ pc[p] = "r_get"
    /\ \E res \in Outcomes(GetOutcome(store, args[p].path)) :
        /\ calls' = [calls EXCEPT ![p] =
                Append(@, [Call("GetParameter", args[p].path) EXCEPT
                              !.decrypt = ReadDecrypt, !.res = res])]
        /\ IF res # "ok"
           THEN /\ Return(p, [NoRet EXCEPT !.err = res])
                /\ UNCHANGED loc
           ELSE /\ pc' = [pc EXCEPT ![p] = "r_tags"]
                /\ loc' = [loc EXCEPT ![p].secret =
                        SecretOf(GetResult(store, args[p].path, ReadDecrypt))]
                /\ UNCHANGED ret
    /\ UNCHANGED <<store, args, pre, last>>
    /\ UNCHANGED px

\* What ReadSecret makes of the ListTagsForResource outcome: the tags are
\* copied when the call succeeded with a non-empty list, and an error is
\* dropped.
WithTags(secret, res, tagList) ==
    IF res = "ok" /\ Cardinality(tagList) > 0
    THEN [secret EXCEPT !.tags = tagList]
    ELSE secret

\* ReadSecret: ListTagsForResource, then return the Secret.
RTags(p) ==
    /\ pc[p] = "r_tags"
    /\ \E res \in Outcomes(ListTagsOutcome(store, args[p].path)) :
        /\ calls' = [calls EXCEPT ![p] =
                Append(@, [Call("ListTagsForResource", args[p].path) EXCEPT
                              !.res = res])]
        /\ Return(p, [NoRet EXCEPT !.secret =
                WithTags(loc[p].secret, res, store[args[p].path].tags)])
    /\ UNCHANGED <<store, args, pre, loc, last>>
    /\ UNCHANGED px

\* ------------------------------------------------------------- ListSecrets
\* The paths a listing is asked for: "/" (no argument) or a resolved path.
ListRoots == Paths \cup { Slash }

ListSecretsStart(p) ==
    /\ Ready(p)
    /\ \E root \in ListRoots, recursive \in BOOLEAN :
        /\ args' = [args EXCEPT ![p] =
                [NoArgs EXCEPT !.op = "list", !.path = root,
                               !.recursive = recursive]]
    /\ pc' = [pc EXCEPT ![p] = "l_loop"]
    /\ calls' = [calls EXCEPT ![p] = <<>>]
    /\ ret' = [ret EXCEPT ![p] = NoRet]
    /\ pre' = [pre EXCEPT ![p] = store]
    /\ loc' = [loc EXCEPT ![p] = [NoLoc EXCEPT !.firstPage = TRUE]]
    /\ UNCHANGED <<store, last>>
    /\ UNCHANGED px

\* paginator.HasMorePages
HasMorePages(l) == l.firstPage \/ l.nextToken # 0

\* The SecretMetadata ListSecrets builds of one parameter of a page.
MetaOf(param) ==
    [name |-> param.name, type |-> param.type, version |-> param.version]

\* Faulty variant of AppendPage: each page replaces what was collected.
AppendPage_Replace(secrets, items) ==
    [i \in 1..Len(items) |->
        [name |-> items[i].name, type |-> items[i].type,
         version |-> items[i].version]]

\* ListSecrets' inner loop: the page's parameters appended in page order.
AppendPage(secrets, items) ==
    secrets \o [i \in 1..Len(items) |-> MetaOf(items[i])]

\* Faulty variant of ListFailure: what was collected is returned with the error.
ListFailure_Partial(secrets, err) == [NoRet EXCEPT !.err = err, !.list = secrets]

\* What ListSecrets returns when a page fetch fails.
ListFailure(secrets, err) == [NoRet EXCEPT !.err = err]

\* Faulty variant of ListDecrypt: the listing asks for plaintext.
ListDecrypt_On == TRUE

\* The WithDecryption flag of the listing request.
ListDecrypt == FALSE

\* One round of the loop: NextPage with the current token.  The store hands
\* out the next k items of the listing (k may be 0) and a continuation token
\* unless this is the last page; page number MaxPages is the last at latest.
\* A token is the number of the page it asks for.
LPage(p) ==
    /\ pc[p] = "l_loop"
    /\ HasMorePages(loc[p])
    /\ LET l       == loc[p]
           all     == StoreListing(store, args[p].path, args[p].recursive)
           pageNo  == IF l.nextToken = 0 THEN 1 ELSE l.nextToken
           request == [Call("GetParametersByPath", args[p].path) EXCEPT
                          !.recursive = args[p].recursive,
                          !.decrypt = ListDecrypt, !.token = l.nextToken]
       IN  \/ /\ calls' = [calls EXCEPT ![p] =
                        Append(@, [request EXCEPT !.res = "Other"])]
              /\ ListReturn(p, ListFailure(l.secrets, "Other"))
              /\ UNCHANGED loc
           \/ \E k \in 0..(Len(all) - l.cursor), more \in BOOLEAN :
              /\ l.cursor + k < Len(all) => more
              /\ more => pageNo < MaxPages
              /\ LET items   == SubSeq(all, l.cursor + 1, l.cursor + k)
                     secrets == AppendPage(l.secrets, items)
                     token   == IF more THEN pageNo + 1 ELSE 0
                 IN  /\ calls' = [calls EXCEPT ![p] =
                            Append(@, [request EXCEPT !.res = "ok",
                                          !.items = items, !.more = more])]
                     /\ loc' = [loc EXCEPT ![p] =
                            [l EXCEPT !.secrets = secrets,
                                      !.firstPage = FALSE,
                                      !.nextToken = token,
                                      !.cursor = l.cursor + k]]
                     /\ IF HasMorePages(loc'[p])
                        THEN UNCHANGED <<pc, ret>>
                        ELSE ListReturn(p, [NoRet EXCEPT !.list = secrets])
    /\ UNCHANGED <<store, args, pre, last>>
    /\ UNCHANGED px

\* --------------------------------------------------------------- runDelete
\* runDelete goes on to the store when --force is given or the prompt was
\* answered with yes.
DeleteConfirmed(force, answer) == force \/ answer

\* runDelete up to the call of DeleteSecret: the path is resolved and the
\* deletion confirmed; a deletion that is not confirmed ends without error.
RunDelete(p) ==
    /\ Ready(p)
    /\ \E arg \in PathArgs, c \in CfgSet, force \in BOOLEAN, answer \in BOOLEAN :
        LET go == DeleteConfirmed(force, answer)
        IN  /\ args' = [args EXCEPT ![p] =
                    [NoArgs EXCEPT !.op = IF go THEN "delete" ELSE "cancelled",
                                   !.path = buildPath(arg, c)]]
            /\ pc' = [pc EXCEPT ![p] = IF go THEN "d_del" ELSE "done"]
    /\ calls' = [calls EXCEPT ![p] = <<>>]
    /\ ret' = [ret EXCEPT ![p] = NoRet]
    /\ pre' = [pre EXCEPT ![p] = store]
    /\ loc' = [loc EXCEPT ![p] = NoLoc]
    /\ UNCHANGED <<store, last, px>>

\* Faulty variant of DeleteReturn: the error is dropped.
DeleteReturn_Nil(res) == NoRet

\* What DeleteSecret returns: the error of DeleteParameter.
DeleteReturn(res) == [NoRet EXCEPT !.err = ErrOf(res)]

\* DeleteSecret: one DeleteParameter.
DDel(p) ==
    /\ pc[p] = "d_del"
    /\ \E res \in Outcomes(DeleteOutcome(store, args[p].path)) :
        /\ calls' = [calls EXCEPT ![p] =
                Append(@, [Call("DeleteParameter", args[p].path) EXCEPT
                              !.res = res])]
        /\ store' = IF res = "ok" THEN DeleteEffect(store, args[p].path)
                    ELSE store
        /\ Return(p, DeleteReturn(res))
    /\ UNCHANGED <<args, pre, loc, last, px>>

\* ------------------------------------------------------------------ Exists
ExistsStart(p) ==
    /\ Ready(p)
    /\ \E arg \in PathArgs, c \in CfgSet :
        /\ args' = [args EXCEPT ![p] =
                [NoArgs EXCEPT !.op = "exists", !.path = buildPath(arg, c)]]
    /\ pc' = [pc EXCEPT ![p] = "e_get"]
    /\ calls' = [calls EXCEPT ![p] = <<>>]
    /\ ret' = [ret EXCEPT ![p] = NoRet]
    /\ pre' = [pre EXCEPT ![p] = store]
    /\ loc' = [loc EXCEPT ![p] = NoLoc]
    /\ UNCHANGED <<store, last, px>>

\* The WithDecryption flag of Exists' GetParameter.
ExistsDecrypt == FALSE

\* Faulty variant of ExistsResult: not-found is returned as an error.
ExistsResult_NotFoundFails(res) ==
    [NoRet EXCEPT !.found = (res = "ok"), !.err = ErrOf(res)]

\* What Exists returns: ParameterNotFound is (false, nil), another error is
\* (false, err), no error is (true, nil).
ExistsResult(res) ==
    IF res # "ok"
    THEN IF res = "NotFound" THEN NoRet ELSE [NoRet EXCEPT !.err = res]
    ELSE [NoRet EXCEPT !.found = TRUE]

\* Exists: one GetParameter, whose value is not looked at.
EGet(p) ==
    /\ pc[p] = "e_get"
    /\ \E res \in Outcomes(GetOutcome(store, args[p].path)) :
        /\ calls' = [calls EXCEPT ![p] =
                Append(@, [Call("GetParameter", args[p].path) EXCEPT
                              !.decrypt = ExistsDecrypt, !.res = res])]
        /\ Return(p, ExistsResult(res))
    /\ UNCHANGED <<store, args, pre, loc, last, px>>

\* The command has printed its outcome and the process exits: nothing of the
\* invocation is kept (the client holds no state between invocations).
Exit(p) ==
    /\ pc[p] = "done"
    /\ pc' = [pc EXCEPT ![p] = "idle"]
    /\ args' = [args EXCEPT ![p] = NoArgs]
    /\ calls' = [calls EXCEPT ![p] = <<>>]
    /\ ret' = [ret EXCEPT ![p] = NoRet]
    /\ pre' = [pre EXCEPT ![p] = EmptyStore]
    /\ loc' = [loc EXCEPT ![p] = NoLoc]
    /\ last' = IF args[p].op = "delete"
               THEN (IF args[p].path = last.path /\ ret[p].err = ""
                     THEN NoLast ELSE last)
               ELSE IF args[p].op # "write" THEN last
               ELSE IF ret[p].err # "" THEN NoLast
               ELSE [op |-> "write", path |-> args[p].path,
                     value |-> args[p].value, tags |-> args[p].tags,
                     fresh |-> ~pre[p][args[p].path].present]
    /\ UNCHANGED store
    /\ UNCHANGED px

Next ==
    \E p \in MainProcs :
        \/ Exit(p)
        \/ RunWrite(p)
        \/ WPut1(p)
        \/ WPut2(p)
        \/ SetTags(p)
        \/ WPut(p)
        \/ ReadSecretStart(p)
        \/ RGet(p)
        \/ RTags(p)
        \/ ListSecretsStart(p)
        \/ LPage(p)
        \/ ExistsStart(p)
        \/ EGet(p)
        \/ RunDelete(p)
        \/ DDel(p)

Spec == Init /\ [][Next]_vars

\* ---------------------------------------------------------------- listings
\* Listings of a store that holds any of its keys, each at any version: the
\* state other users' writes have left it in.
ListedParam(v) == [present |-> TRUE, value |-> "v1", version |-> v, tags |-> {}]

InitList ==
    /\ store \in [Paths -> {Absent} \cup { ListedParam(v) : v \in 1..MaxVersion }]
    /\ pc = [p \in Procs |-> "idle"]
    /\ args = [p \in Procs |-> NoArgs]
    /\ calls = [p \in Procs |-> <<>>]
    /\ ret = [p \in Procs |-> NoRet]
    /\ pre = [p \in Procs |-> EmptyStore]
    /\ loc = [p \in Procs |-> NoLoc]
    /\ last = NoLast
    /\ px = NoPx

NextList ==
    \E p \in MainProcs :
        \/ ListSecretsStart(p)
        \/ LPage(p)
        \/ Exit(p)

SpecList == InitList /\ [][NextList]_vars

\* The loop of ListSecrets is a plain for loop around a blocking call: a round
\* that can be made is made.
SpecListFair ==
    SpecList /\ \A p \in MainProcs : WF_vars(LPage(p))

\* ------------------------------------------- the list and search commands
OutputArgs == { "text", "json" }

\* runList up to the call of ListSecrets: without a path argument the
\* listing is of "/", recursive and interactive.
RunList(p) ==
    /\ Ready(p)
    /\ \E given \in BOOLEAN, arg \in PathArgs, c \in CfgSet,
          listRecursive \in BOOLEAN, listInteractive \in BOOLEAN,
          output \in OutputArgs :
        args' = [args EXCEPT ![p] =
            [NoArgs EXCEPT
                !.op = "runList",
                !.path = IF given THEN buildPath(arg, c) ELSE Slash,
                !.recursive = ~given \/ listRecursive,
                !.interactive = ~given \/ listInteractive,
                !.output = output]]
    /\ pc' = [pc EXCEPT ![p] = "l_loop"]
    /\ calls' = [calls EXCEPT ![p] = <<>>]
    /\ ret' = [ret EXCEPT ![p] = NoRet]
    /\ pre' = [pre EXCEPT ![p] = store]
    /\ loc' = [loc EXCEPT ![p] = [NoLoc EXCEPT !.firstPage = TRUE]]
    /\ UNCHANGED <<store, last, px>>

\* runRead without a path argument, interactiveSecretSearch up to the call
\* of ListSecrets("/", true).
InteractiveSecretSearch(p) ==
    /\ Ready(p)
    /\ args' = [args EXCEPT ![p] =
            [NoArgs EXCEPT !.op = "search", !.path = Slash,
                           !.recursive = TRUE, !.interactive = TRUE]]
    /\ pc' = [pc EXCEPT ![p] = "l_loop"]
    /\ calls' = [calls EXCEPT ![p] = <<>>]
    /\ ret' = [ret EXCEPT ![p] = NoRet]
    /\ pre' = [pre EXCEPT ![p] = store]
    /\ loc' = [loc EXCEPT ![p] = [NoLoc EXCEPT !.firstPage = TRUE]]
    /\ UNCHANGED <<store, last, px>>

\* Faulty variant of NoSecrets: an empty listing is not told apart.
NoSecrets_Never(secrets) == FALSE

\* len(secrets) == 0
NoSecrets(secrets) == Len(secrets) = 0

\* The command ends: what it printed and the error it returns.
CommandEnds(p, report, err) ==
    /\ pc' = [pc EXCEPT ![p] = "done"]
    /\ ret' = [ret EXCEPT ![p].err = err]
    /\ loc' = [loc EXCEPT ![p].report = report]

\* runList after ListSecrets returned.
RunListListed(p) ==
    /\ pc[p] = "listed" /\ args[p].op = "runList"
    /\ IF ret[p].err # "" THEN CommandEnds(p, "", ret[p].err)
       ELSE IF NoSecrets(ret[p].list) THEN CommandEnds(p, "no-secrets", "")
       ELSE IF args[p].output = "json" THEN CommandEnds(p, "json", "")
       ELSE IF args[p].interactive
            THEN /\ pc' = [pc EXCEPT ![p] = "select"]
                 /\ UNCHANGED <<ret, loc>>
       ELSE CommandEnds(p, "table", "")
    /\ UNCHANGED <<store, args, calls, pre, last, px>>

\* interactiveSecretSearch after ListSecrets returned.
SearchListed(p) ==
    /\ pc[p] = "listed" /\ args[p].op = "search"
    /\ IF ret[p].err # "" THEN CommandEnds(p, "", ret[p].err)
       ELSE IF NoSecrets(ret[p].list) THEN CommandEnds(p, "no-secrets", "")
       ELSE /\ pc' = [pc EXCEPT ![p] = "select"]
            /\ UNCHANGED <<ret, loc>>
    /\ UNCHANGED <<store, args, calls, pre, last, px>>

\* Faulty variant of CancelReturn: the selector's error is passed on.
CancelReturn_Error == "Cancelled"

\* What a command returns when the selector ended with an error, which is
\* how a cancellation shows: nil.
CancelReturn == ""

\* The interactive selector returns: the user picked the name of one of the
\* listed secrets or cancelled (choice 0).  runInteractiveList shows the
\* details of the pick; runRead goes on to ReadSecret of the pick; after a
\* cancellation both end without error.
Select(p) ==
    /\ pc[p] = "select"
    /\ \E choice \in 0..Len(ret[p].list) :
        IF choice = 0
        THEN /\ pc' = [pc EXCEPT ![p] = "done"]
             /\ loc' = [loc EXCEPT ![p].selector = "cancelled"]
             /\ ret' = [ret EXCEPT ![p].err = CancelReturn]
             /\ UNCHANGED args
        ELSE LET selected == ret[p].list[choice].name
             IN  /\ UNCHANGED ret
                 /\ loc' = [loc EXCEPT
                        ![p].selector = "picked",
                        ![p].selected = selected,
                        ![p].report = IF args[p].op = "runList"
                                      THEN "details" ELSE ""]
                 /\ IF args[p].op = "runList"
                    THEN /\ pc' = [pc EXCEPT ![p] = "done"]
                         /\ UNCHANGED args
                    ELSE /\ pc' = [pc EXCEPT ![p] = "r_get"]
                         /\ args' = [args EXCEPT ![p].path = selected]
    /\ UNCHANGED <<store, calls, pre, last, px>>

NextCmd ==
    \E p \in MainProcs :
        \/ RunList(p)
        \/ InteractiveSecretSearch(p)
        \/ LPage(p)
        \/ RunListListed(p)
        \/ SearchListed(p)
        \/ Select(p)
        \/ RGet(p)
        \/ RTags(p)
        \/ Exit(p)

\* The commands run against the stores that listings are explored on.
SpecCmd == InitList /\ [][NextCmd]_vars

\* ------------------------------------------------------ concurrent writes
\* Two invocations of WriteSecret with tags, each run once, against a store
\* that starts empty; their remote calls interleave in any order.
RaceValues == { "v1", "v2" }

RaceTags == { ParseTags(specs).tags : specs \in TagArgs } \ { {} }

RacePaths == { buildPath(arg, c) : arg \in PathArgs, c \in CfgSet }

WriteSecretStart(p) ==
    /\ Ready(p)
    /\ \E path \in RacePaths, value \in RaceValues, tags \in RaceTags,
          overwrite \in BOOLEAN :
        args' = [args EXCEPT ![p] =
            [NoArgs EXCEPT !.op = "write", !.path = path, !.value = value,
                           !.tags = tags, !.overwrite = overwrite]]
    /\ pc' = [pc EXCEPT ![p] = WriteEntry(args'[p].tags)]
    /\ calls' = [calls EXCEPT ![p] = <<>>]
    /\ ret' = [ret EXCEPT ![p] = NoRet]
    /\ pre' = [pre EXCEPT ![p] = store]
    /\ loc' = [loc EXCEPT ![p] = NoLoc]
    /\ UNCHANGED <<store, last, px>>

NextRace ==
    \E p \in Procs :
        \/ WriteSecretStart(p)
        \/ WPut1(p)
        \/ WPut2(p)
        \/ SetTags(p)

SpecRace == Init /\ [][NextRace]_vars

\* ------------------------------------------------------- the path resolver
\* buildPath on its own: every input, prefix and env over PathChars of at
\* most MaxLen characters, and the two documented examples.
PathChars == { "/", "a" }

Strs(n) == UNION { [1..k -> PathChars] : k \in 0..n }

PathExamples ==
    { [input  |-> <<"x","/","y">>,
       prefix |-> <<"/","i","n","f","r","a","/","s","a","a","s">>,
       env    |-> <<"p","r","o","d">>],
      [input |-> <<"k">>, prefix |-> <<>>, env |-> <<>>] }

PathInputs ==
    [input : Strs(MaxLen), prefix : Strs(MaxLen), env : Strs(MaxLen)]
        \cup PathExamples

InitPath ==
    /\ store = EmptyStore
    /\ pc = [p \in Procs |-> "idle"]
    /\ args = [p \in Procs |-> NoArgs]
    /\ calls = [p \in Procs |-> <<>>]
    /\ ret = [p \in Procs |-> NoRet]
    /\ pre = [p \in Procs |-> EmptyStore]
    /\ loc = [p \in Procs |-> NoLoc]
    /\ last = NoLast
    /\ \E in \in PathInputs :
        px = [fn |-> "buildPath", stage |-> "in", input |-> in.input,
              prefix |-> in.prefix, env |-> in.env,
              out |-> <<>>, again |-> <<>>]

\* buildPath(input) under the configuration of px.
Resolve ==
    /\ px.fn = "buildPath" /\ px.stage = "in"
    /\ px' = [px EXCEPT !.stage = "out",
                        !.out = buildPath(px.input,
                                    [prefix |-> px.prefix, env |-> px.env])]
    /\ UNCHANGED <<store, pc, args, calls, ret, pre, loc, last>>

\* buildPath applied to the path that buildPath returned.
ResolveAgain ==
    /\ px.fn = "buildPath" /\ px.stage = "out"
    /\ px' = [px EXCEPT !.stage = "again",
                        !.again = buildPath(px.out,
                                    [prefix |-> px.prefix, env |-> px.env])]
    /\ UNCHANGED <<store, pc, args, calls, ret, pre, loc, last>>

NextPath == Resolve \/ ResolveAgain

SpecPath == InitPath /\ [][NextPath]_vars

\* ------------------------------------------------------------ configuration
\* The merge of one configuration key on its own: what the config file, the
\* LOCKR_ variable and the command line say about it.
ConfigKeys == { "prefix", "env", "output", "region" }

NotSet == [set |-> FALSE, val |-> ""]
Given(v) == [set |-> TRUE, val |-> v]

FileSettings == { NotSet, Given("from-file") }
EnvSettings  == { NotSet, Given(""), Given("from-env") }
FlagSettings == { NotSet, Given(""), Given("from-flag") }

\* DefaultConfig
DefaultOf(key) == IF key = "output" THEN "text" ELSE ""

\* The default value each flag is declared with.
FlagDefault(key) == IF key = "output" THEN "text" ELSE ""

\* config.Load: viper takes the environment variable unless it is unset or
\* empty, then the config file, then the default.
Load(key, file, envvar) ==
    IF envvar.set /\ envvar.val # "" THEN envvar.val
    ELSE IF file.set THEN file.val
    ELSE DefaultOf(key)

\* GetString of a flag: the value given on the command line, the declared
\* default when the flag was not given.
GetString(key, flag) == IF flag.set THEN flag.val ELSE FlagDefault(key)

\* initConfig overrides the loaded value with the flag's value unless that
\* value is empty.
Override(loaded, flagValue) ==
    IF flagValue # "" THEN flagValue ELSE loaded

InitConfigInputs ==
    /\ store = EmptyStore
    /\ pc = [p \in Procs |-> "idle"]
    /\ args = [p \in Procs |-> NoArgs]
    /\ calls = [p \in Procs |-> <<>>]
    /\ ret = [p \in Procs |-> NoRet]
    /\ pre = [p \in Procs |-> EmptyStore]
    /\ loc = [p \in Procs |-> NoLoc]
    /\ last = NoLast
    /\ \E key \in ConfigKeys, file \in FileSettings, envvar \in EnvSettings,
          flag \in FlagSettings :
        px = [fn |-> "initConfig", stage |-> "in", key |-> key,
              file |-> file, envvar |-> envvar, flag |-> flag,
              effective |-> ""]

initConfig ==
    /\ px.fn = "initConfig" /\ px.stage = "in"
    /\ px' = [px EXCEPT
                !.stage = "effective",
                !.effective = Override(Load(px.key, px.file, px.envvar),
                                       GetString(px.key, px.flag))]
    /\ UNCHANGED <<store, pc, args, calls, ret, pre, loc, last>>

NextConfig == initConfig

SpecConfig == InitConfigInputs /\ [][NextConfig]_vars

\* ================================================================== claims
\* The invocation has entered WriteSecret with tags / without tags.
TaggedWrite(p) == args[p].op = "write" /\ args[p].tags # {}
PlainWrite(p) == args[p].op = "write" /\ args[p].tags = {}

\* The path of the invocation existed when the invocation started.
Existed(p) == pre[p][args[p].path].present

\* c is a put of the invocation's value to its path that carries no tags.
IsPut(c, p, ow) ==
    /\ c.op = "PutParameter"
    /\ c.path = args[p].path
    /\ c.value = args[p].value
    /\ c.overwrite = ow
    /\ c.tags = {}

\* c is a tag-set call with the invocation's tags on its path.
IsTagSet(c, p) ==
    /\ c.op = "AddTagsToResource"
    /\ c.path = args[p].path
    /\ c.tags = args[p].tags

TagSets(p) == { i \in 1..Len(calls[p]) : calls[p][i].op = "AddTagsToResource" }

AllOk(cs) == \A i \in 1..Len(cs) : cs[i].res = "ok"

\* C1: a write with tags to a path that does not exist issues first a put
\* that is non-overwriting and carries no tags, then exactly one tag-set call
\* with the given tags; when both succeed the write succeeds; and a read that
\* follows such a write (its two fetches succeeding) returns the written
\* value and every given tag key with its given value.
C1_TaggedWriteNewPath ==
    \A p \in MainProcs :
        /\ (TaggedWrite(p) /\ ~Existed(p)) =>
            LET cs == calls[p]
            IN  /\ Len(cs) <= 2
                /\ pc[p] # "w_put1" => Len(cs) >= 1
                /\ Len(cs) >= 1 => IsPut(cs[1], p, FALSE)
                /\ Len(cs) = 2 => cs[1].res = "ok" /\ IsTagSet(cs[2], p)
                /\ (pc[p] = "done" /\ cs[1].res = "ok") => Len(cs) = 2
                /\ pc[p] = "done" => (ret[p].err = "" <=> (Len(cs) = 2 /\ AllOk(cs)))
        /\ ( /\ args[p].op = "read" /\ pc[p] = "done"
             /\ last.op = "write" /\ last.fresh /\ last.tags # {}
             /\ last.path = args[p].path
             /\ Len(calls[p]) = 2 /\ AllOk(calls[p]) ) =>
            /\ ret[p].err = ""
            /\ ret[p].secret.some
            /\ ret[p].secret.value = last.value
            /\ \A t \in last.tags : t \in ret[p].secret.tags

\* A read right after a successful tagged write of a new path has returned
\* the value and the tags.
C1_Witness ==
    \E p \in MainProcs :
        /\ args[p].op = "read" /\ pc[p] = "done"
        /\ last.op = "write" /\ last.fresh /\ Cardinality(last.tags) = 2
        /\ last.path = args[p].path
        /\ ret[p].secret.value = last.value
        /\ ret[p].secret.tags = last.tags

\* C2: a write with tags and overwrite=true to a path that exists: the first
\* put is non-overwriting and is not accepted; after its already-exists
\* answer the client retries with overwrite=true and still without tags; the
\* tag-set call is issued only after that retry succeeded; when the retry
\* fails its error is returned and no tag-set call is issued.
C2_TaggedOverwrite ==
    \A p \in MainProcs :
        (TaggedWrite(p) /\ Existed(p) /\ args[p].overwrite) =>
            LET cs == calls[p]
            IN  /\ Len(cs) <= 3
                /\ Len(cs) >= 1 => IsPut(cs[1], p, FALSE) /\ cs[1].res # "ok"
                /\ (Len(cs) >= 1 /\ cs[1].res = "AlreadyExists"
                        /\ pc[p] # "w_put2") => Len(cs) >= 2
                /\ Len(cs) >= 2 =>
                        cs[1].res = "AlreadyExists" /\ IsPut(cs[2], p, TRUE)
                /\ Len(cs) = 3 => cs[2].res = "ok" /\ IsTagSet(cs[3], p)
                /\ (pc[p] = "done" /\ Len(cs) >= 2 /\ cs[2].res = "ok") =>
                        Len(cs) = 3 /\ ret[p].err = ErrOf(cs[3].res)
                /\ (Len(cs) >= 2 /\ cs[2].res # "ok") =>
                        /\ pc[p] = "done"
                        /\ ret[p].err = cs[2].res
                        /\ Len(cs) = 2
                        /\ TagSets(p) = {}

\* The retry succeeded and the tag-set call followed it.
C2_Witness ==
    \E p \in MainProcs :
        /\ TaggedWrite(p) /\ Existed(p) /\ args[p].overwrite
        /\ pc[p] = "done" /\ ret[p].err = ""
        /\ Len(calls[p]) = 3
        /\ calls[p][1].res = "AlreadyExists"
        /\ calls[p][2].overwrite
        /\ calls[p][3].op = "AddTagsToResource"

\* C3: a write to a path that exists with overwrite=false, with or without
\* tags, fails (with AlreadyExists whenever the store answered the put),
\* issues no tag-set call, and leaves the value, version and tags of the path
\* as they were.
C3_NoOverwrite ==
    \A p \in MainProcs :
        (args[p].op = "write" /\ Existed(p) /\ ~args[p].overwrite) =>
            LET cs == calls[p]
            IN  /\ Len(cs) <= 1
                /\ TagSets(p) = {}
                /\ store[args[p].path] = pre[p][args[p].path]
                /\ Len(cs) = 1 =>
                    /\ IsPut(cs[1], p, FALSE)
                    /\ cs[1].res \in {"AlreadyExists", "Other"}
                    /\ pc[p] = "done"
                    /\ ret[p].err = cs[1].res

\* A tagged write without overwrite was refused with AlreadyExists.
C3_Witness ==
    \E p \in MainProcs :
        /\ TaggedWrite(p) /\ Existed(p) /\ ~args[p].overwrite
        /\ pc[p] = "done" /\ ret[p].err = "AlreadyExists"
        /\ pre[p][args[p].path].tags # {}
        /\ pre[p][args[p].path].value # args[p].value

\* C4: in a write with tags, when the first put fails with an error other
\* than already-exists, that error is returned and the invocation issues no
\* other remote call, whatever overwrite is.
C4_FirstPutError ==
    \A p \in MainProcs :
        (TaggedWrite(p) /\ Len(calls[p]) >= 1
            /\ calls[p][1].res \notin {"ok", "AlreadyExists"}) =>
                /\ pc[p] = "done"
                /\ ret[p].err = calls[p][1].res
                /\ Len(calls[p]) = 1

\* The first put of a tagged overwriting write failed in transit.
C4_Witness ==
    \E p \in MainProcs :
        /\ TaggedWrite(p) /\ args[p].overwrite /\ Existed(p)
        /\ pc[p] = "done"
        /\ Len(calls[p]) = 1 /\ calls[p][1].res = "Other"
        /\ ret[p].err = "Other"

\* C5: the tagged write is not atomic: when a put of the invocation succeeded
\* and the tag-set call failed, the write returns the tag-set error, no call
\* follows the tag-set, the store holds the new value under a new version,
\* and the tags of the path are as they were before the write.
C5_NotAtomic ==
    \A p \in MainProcs :
        (TaggedWrite(p) /\ TagSets(p) # {}
            /\ calls[p][Len(calls[p])].res # "ok") =>
                LET cs   == calls[p]
                    path == args[p].path
                IN  /\ cs[Len(cs)].op = "AddTagsToResource"
                    /\ cs[Len(cs) - 1].op = "PutParameter"
                    /\ cs[Len(cs) - 1].res = "ok"
                    /\ pc[p] = "done"
                    /\ ret[p].err = cs[Len(cs)].res
                    /\ store[path].present
                    /\ store[path].value = args[p].value
                    /\ store[path].version = pre[p][path].version + 1
                    /\ store[path].tags = pre[p][path].tags

\* The overwriting retry succeeded, the tag-set failed: new value, old tags.
C5_Witness ==
    \E p \in MainProcs :
        /\ TaggedWrite(p) /\ Existed(p)
        /\ pc[p] = "done" /\ ret[p].err = "Other"
        /\ Len(calls[p]) = 3
        /\ store[args[p].path].value # pre[p][args[p].path].value
        /\ store[args[p].path].tags = pre[p][args[p].path].tags
        /\ store[args[p].path].tags # args[p].tags

\* C6: a write without tags issues exactly one put, whose overwrite flag is
\* the overwrite argument and whose key is kms_key when that is not empty
\* (no key is named otherwise); it issues no tag-set call and returns that
\* put's outcome.
C6_PlainWrite ==
    \A p \in MainProcs :
        PlainWrite(p) =>
            LET cs == calls[p]
            IN  /\ Len(cs) <= 1
                /\ pc[p] = "done" <=> Len(cs) = 1
                /\ Len(cs) = 1 =>
                    /\ IsPut(cs[1], p, args[p].overwrite)
                    /\ cs[1].keyId = args[p].kmsKey
                    /\ ret[p].err = (IF cs[1].res = "ok" THEN "" ELSE cs[1].res)
                    /\ (cs[1].res = "ok") <=>
                            (store[args[p].path].version
                                = pre[p][args[p].path].version + 1)

\* An untagged overwriting write under a named key went through in one call.
C6_Witness ==
    \E p \in MainProcs :
        /\ PlainWrite(p) /\ args[p].overwrite /\ Existed(p)
        /\ args[p].kmsKey # ""
        /\ pc[p] = "done" /\ ret[p].err = ""
        /\ Len(calls[p]) = 1 /\ calls[p][1].overwrite
        /\ store[args[p].path].value # pre[p][args[p].path].value

\* C7: a write command with an empty value fails with InvalidInput and the
\* invocation has made no remote call, whatever the tags and overwrite are.
C7_EmptyValue ==
    \A p \in MainProcs :
        (args[p].op \in {"write", "rejected"} /\ args[p].value = "") =>
            /\ args[p].op = "rejected"
            /\ pc[p] = "done"
            /\ ret[p].err = "InvalidInput"
            /\ calls[p] = <<>>
            /\ store = pre[p]

\* An empty value was rejected on a command line that gave tags and
\* overwrite.
C7_Witness ==
    \E p \in MainProcs :
        /\ args[p].op = "rejected" /\ args[p].value = ""
        /\ args[p].tags # {} /\ args[p].overwrite
        /\ ret[p].err = "InvalidInput"
        /\ calls[p] = <<>>

\* C8: read fetches the value with decryption and then the tags.  When the
\* value fetch succeeded and the tag fetch failed, read succeeds with the
\* Secret and empty tags; when the value fetch failed, read returns that
\* error and no Secret and issues no tag fetch.
C8_Read ==
    \A p \in MainProcs :
        args[p].op = "read" =>
            LET cs   == calls[p]
                path == args[p].path
            IN  /\ Len(cs) <= 2
                /\ pc[p] = "r_tags" => Len(cs) = 1 /\ cs[1].res = "ok"
                /\ Len(cs) >= 1 =>
                    /\ cs[1].op = "GetParameter"
                    /\ cs[1].path = path
                    /\ cs[1].decrypt
                /\ Len(cs) = 2 =>
                    /\ cs[1].res = "ok"
                    /\ cs[2].op = "ListTagsForResource"
                    /\ cs[2].path = path
                    /\ pc[p] = "done"
                    /\ ret[p].err = ""
                    /\ ret[p].secret.some
                    /\ ret[p].secret.name = path
                    /\ ret[p].secret.value = store[path].value
                    /\ ret[p].secret.version = store[path].version
                    /\ ret[p].secret.tags =
                            (IF cs[2].res = "ok" THEN store[path].tags ELSE {})
                /\ (Len(cs) >= 1 /\ cs[1].res # "ok") =>
                    /\ pc[p] = "done"
                    /\ Len(cs) = 1
                    /\ ret[p].err = cs[1].res
                    /\ ~ret[p].secret.some

\* The tag fetch of a read failed on a path that has tags: the Secret came
\* back with its value and no tags.
C8_Witness ==
    \E p \in MainProcs :
        /\ args[p].op = "read" /\ pc[p] = "done"
        /\ Len(calls[p]) = 2 /\ calls[p][2].res = "Other"
        /\ store[args[p].path].tags # {}
        /\ ret[p].err = "" /\ ret[p].secret.some
        /\ ret[p].secret.value = store[args[p].path].value
        /\ ret[p].secret.tags = {}

\* The items the store handed out over the pages of a listing, in order.
RECURSIVE PagesConcat(_)
PagesConcat(cs) ==
    IF cs = <<>> THEN <<>> ELSE Head(cs).items \o PagesConcat(Tail(cs))

\* C9: whatever pages the store splits a recursive listing into (empty pages
\* included), a listing that ends without error returns exactly the items
\* of the store below the path, in the store's order, each once.
C9_ListPagination ==
    \A p \in MainProcs :
        (args[p].op = "list" /\ args[p].recursive /\ pc[p] = "done"
            /\ ret[p].err = "") =>
            LET all == StoreListing(store, args[p].path, TRUE)
                out == ret[p].list
            IN  /\ PagesConcat(calls[p]) = all
                /\ Len(out) = Len(all)
                /\ \A i \in 1..Len(out) :
                    /\ out[i].name = all[i].name
                    /\ out[i].type = all[i].type
                    /\ out[i].version = all[i].version
                /\ \A i, j \in 1..Len(out) : out[i].name = out[j].name => i = j
                /\ \A q \in Paths :
                    (store[q].present /\ Under(q, args[p].path, TRUE)) <=>
                        (\E i \in 1..Len(out) : out[i].name = q)

\* The three items below /a and /a itself aside, of a store that holds all
\* four keys, came over three pages, the second of them empty.
C9_Witness ==
    \E p \in MainProcs :
        /\ args[p].op = "list" /\ args[p].recursive /\ pc[p] = "done"
        /\ args[p].path = <<"/","a">>
        /\ \A q \in Paths : store[q].present
        /\ ret[p].err = ""
        /\ Len(calls[p]) = 3
        /\ Len(calls[p][1].items) = 1
        /\ calls[p][2].items = <<>>
        /\ Len(ret[p].list) = 2

\* C10: when the fetch of a page fails, the first or a later one, list
\* returns the error and an empty result, and requests no further page.
C10_ListFailure ==
    \A p \in MainProcs :
        (args[p].op = "list"
            /\ \E i \in 1..Len(calls[p]) : calls[p][i].res # "ok") =>
                /\ calls[p][Len(calls[p])].res # "ok"
                /\ \A i \in 1..(Len(calls[p]) - 1) : calls[p][i].res = "ok"
                /\ pc[p] = "done"
                /\ ret[p].err = calls[p][Len(calls[p])].res
                /\ ret[p].list = <<>>

\* The third page failed after the first two had delivered three items.
C10_Witness ==
    \E p \in MainProcs :
        /\ args[p].op = "list" /\ pc[p] = "done"
        /\ Len(calls[p]) = 3
        /\ Len(calls[p][1].items) + Len(calls[p][2].items) = 3
        /\ calls[p][3].res = "Other"
        /\ ret[p].err = "Other" /\ ret[p].list = <<>>

\* The state of the listing loop after its calls so far.
C11_Sequential ==
    \A p \in MainProcs :
        args[p].op = "list" =>
            LET cs == calls[p]
                n  == Len(cs)
            IN  /\ n <= MaxPages
                /\ \A i \in 1..n :
                    /\ cs[i].op = "GetParametersByPath"
                    /\ cs[i].path = args[p].path
                    /\ cs[i].recursive = args[p].recursive
                    /\ ~cs[i].decrypt
                    /\ cs[i].token = (IF i = 1 THEN 0 ELSE i)
                /\ \A i \in 1..(n - 1) : cs[i].res = "ok" /\ cs[i].more
                /\ pc[p] = "l_loop" =>
                    /\ \A i \in 1..n : cs[i].res = "ok" /\ cs[i].more
                    /\ Len(loc[p].secrets) = Len(PagesConcat(cs))
                    /\ \A i \in 1..Len(loc[p].secrets) :
                        loc[p].secrets[i].name = PagesConcat(cs)[i].name
                /\ pc[p] = "done" =>
                    /\ n >= 1
                    /\ cs[n].res # "ok" \/ ~cs[n].more

\* C11: the listing loop asks for the pages one at a time: every request but
\* the last was answered with a page that carried a continuation and whose
\* items are appended before the next request goes out; the requests carry
\* the tokens in the order the store handed them out, one request per page,
\* all with decryption off; the loop ends with the first response that
\* carries no continuation (or fails), which it reaches when the store
\* returns at most MaxPages pages.
C11_SequentialPaging ==
    /\ []C11_Sequential
    /\ \A p \in MainProcs :
        (args[p].op = "list" /\ pc[p] = "l_loop") ~> (pc[p] = "done")

\* A listing of four items ended after MaxPages pages.
C11_Witness ==
    \E p \in MainProcs :
        /\ args[p].op = "list" /\ pc[p] = "done" /\ ret[p].err = ""
        /\ Len(calls[p]) = 3
        /\ \A i \in 1..3 : calls[p][i].items # <<>>
        /\ Len(ret[p].list) = 4

\* C12: exists issues a single get with decryption off and leaves the store
\* as it is; it returns (false, no error) when the store reports not-found,
\* (true, no error) when the path is present, and the error of any other
\* failure.
C12_Exists ==
    \A p \in MainProcs :
        args[p].op = "exists" =>
            LET cs == calls[p]
            IN  /\ store = pre[p]
                /\ Len(cs) <= 1
                /\ pc[p] = "done" <=> Len(cs) = 1
                /\ Len(cs) = 1 =>
                    /\ cs[1].op = "GetParameter"
                    /\ cs[1].path = args[p].path
                    /\ ~cs[1].decrypt
                    /\ cs[1].res = "NotFound" =>
                        /\ ~store[args[p].path].present
                        /\ ~ret[p].found /\ ret[p].err = ""
                    /\ cs[1].res = "ok" =>
                        /\ store[args[p].path].present
                        /\ ret[p].found /\ ret[p].err = ""
                    /\ cs[1].res \notin {"ok", "NotFound"} =>
                        ~ret[p].found /\ ret[p].err = cs[1].res
                    /\ ~ret[p].secret.some

\* The probe of an absent path answered false without an error.
C12_Witness ==
    \E p \in MainProcs :
        /\ args[p].op = "exists" /\ pc[p] = "done"
        /\ ~store[args[p].path].present
        /\ \E q \in Paths : store[q].present
        /\ calls[p][1].res = "NotFound"
        /\ ~ret[p].found /\ ret[p].err = ""

\* C13: delete of an absent path fails with NotFound and leaves the store as
\* it is; delete of a present path removes that path and leaves the value,
\* version and tags of every other path as they are; any other failure is
\* returned as an error (and nothing is removed).
C13_Delete ==
    \A p \in MainProcs :
        args[p].op = "delete" =>
            LET cs   == calls[p]
                path == args[p].path
            IN  /\ Len(cs) <= 1
                /\ pc[p] = "done" <=> Len(cs) = 1
                /\ \A q \in Paths \ {path} : store[q] = pre[p][q]
                /\ Len(cs) = 0 => store = pre[p]
                /\ Len(cs) = 1 =>
                    /\ cs[1].op = "DeleteParameter" /\ cs[1].path = path
                    /\ ~pre[p][path].present =>
                        /\ cs[1].res \in {"NotFound", "Other"}
                        /\ ret[p].err = cs[1].res
                        /\ store = pre[p]
                    /\ (pre[p][path].present /\ cs[1].res = "ok") =>
                        /\ ret[p].err = ""
                        /\ ~store[path].present
                    /\ cs[1].res # "ok" =>
                        /\ ret[p].err = cs[1].res
                        /\ store = pre[p]

\* A present path was deleted while another path stayed in the store.
C13_Witness ==
    \E p \in MainProcs :
        /\ args[p].op = "delete" /\ pc[p] = "done" /\ ret[p].err = ""
        /\ pre[p][args[p].path].present
        /\ ~store[args[p].path].present
        /\ \E q \in Paths \ {args[p].path} :
            store[q].present /\ store[q].tags # {}

\* The number of puts among the calls cs that the store executed.
RECURSIVE OkPuts(_)
OkPuts(cs) ==
    IF cs = <<>> THEN 0
    ELSE (IF Head(cs).op = "PutParameter" /\ Head(cs).res = "ok" THEN 1 ELSE 0)
         + OkPuts(Tail(cs))

\* No call of cs failed in transit.
NoTransitFailure(cs) == \A i \in 1..Len(cs) : cs[i].res # "Other"

\* The invocation writes, with overwrite, the value that the last write put
\* on the same path.
SameValueAgain(p) ==
    /\ args[p].op = "write" /\ args[p].overwrite
    /\ last.op = "write"
    /\ last.path = args[p].path
    /\ last.value = args[p].value

\* C14: a write, with overwrite, of the value that the preceding successful
\* write put on the same path succeeds too (no call failing in transit) and
\* leaves a version strictly greater than the first write left; no version
\* is ever negative; during any write, tagged or untagged, the version of
\* the path is its version at the start plus the number of puts the store
\* executed (a put that fails changes nothing), the version of every other
\* path is as it was, and a write that succeeds has increased the version.
C14_Versions ==
    /\ \A q \in Paths : store[q].version >= 0
    /\ \A p \in MainProcs :
        args[p].op = "write" =>
            LET path == args[p].path
            IN  /\ store[path].version
                       = pre[p][path].version + OkPuts(calls[p])
                /\ \A q \in Paths \ {path} :
                       store[q].version = pre[p][q].version
                /\ (pc[p] = "done" /\ ret[p].err = "") =>
                       store[path].version > pre[p][path].version
                /\ SameValueAgain(p) =>
                    /\ pre[p][path].present
                    /\ pre[p][path].value = last.value
                    /\ (pc[p] = "done" /\ NoTransitFailure(calls[p])) =>
                        /\ ret[p].err = ""
                        /\ store[path].version > pre[p][path].version
                        /\ store[path].value = last.value

\* The same value was written a second time with overwrite, without tags,
\* and the version went from 1 to 2.
C14_Witness ==
    \E p \in MainProcs :
        /\ SameValueAgain(p) /\ args[p].tags = {}
        /\ pc[p] = "done" /\ ret[p].err = ""
        /\ pre[p][args[p].path].version = 1
        /\ store[args[p].path].version = 2

\* buildPath has returned for the inputs of px.
Resolved == px.fn = "buildPath" /\ px.stage \in {"out", "again"}

\* C15: an input that starts with "/" is returned as it is, whatever prefix
\* and env are; and resolving a path that was resolved from a non-empty
\* input returns that path.
C15_AbsoluteUnchanged ==
    /\ (Resolved /\ HasPrefix(px.input, Slash)) => px.out = px.input
    /\ (px.fn = "buildPath" /\ px.stage = "again" /\ px.input # <<>>) =>
            px.again = px.out

\* A relative input was resolved under a prefix and resolved again.
C15_Witness ==
    /\ px.fn = "buildPath" /\ px.stage = "again"
    /\ px.input = <<"a">> /\ px.prefix = <<"/","a">> /\ px.env = <<>>
    /\ px.out = <<"/","a","/","a">>
    /\ px.again = px.out

\* The segments as C16 states them: the stripped prefix unless it is empty,
\* env unless it is empty, then the input.
ClaimedSegments(input, prefix, env) ==
       (IF Trim(prefix, "/") # <<>> THEN <<Trim(prefix, "/")>> ELSE <<>>)
    \o (IF env # <<>> THEN <<env>> ELSE <<>>)
    \o <<input>>

\* C16: for a relative input the result is "/" followed by the segments
\* (stripped prefix unless empty, env unless empty, input) joined with "/";
\* a prefix of "/" characters only contributes no segment.
C16_Segments ==
    (Resolved /\ ~HasPrefix(px.input, Slash)) =>
        px.out = Slash \o Join(ClaimedSegments(px.input, px.prefix, px.env),
                               Slash)

\* The two documented examples of C16 resolve as stated.
C16_Examples ==
    Resolved =>
        /\ (px.input = <<"x","/","y">> /\ px.env = <<"p","r","o","d">>) =>
              px.out = <<"/","i","n","f","r","a","/","s","a","a","s","/",
                         "p","r","o","d","/","x","/","y">>
        /\ (px.input = <<"k">> /\ px.prefix = <<>> /\ px.env = <<>>) =>
              px.out = <<"/","k">>

NoTrailingSlash(s) == s = <<>> \/ s[Len(s)] # "/"

NoEmptySegment(s) ==
    \A i \in 1..(Len(s) - 1) : ~(s[i] = "/" /\ s[i + 1] = "/")

\* s is a run of non-empty segments with no "/" before or after it.
CleanSegments(s) ==
    /\ s # <<>>
    /\ s[1] # "/"
    /\ NoTrailingSlash(s)
    /\ NoEmptySegment(s)

Canonical(s) ==
    /\ HasPrefix(s, Slash)
    /\ NoTrailingSlash(s)
    /\ NoEmptySegment(s)

Separators(spec) == Cardinality({ i \in 1..Len(spec) : spec[i] = "=" })

\* The invocation is a write command that was given tag specifications.
WriteCommand(p) == args[p].op \in {"write", "rejected"}

\* C18 as stated: a write command with a tag specification that has no "="
\* or more than one is rejected with InvalidInput and makes no remote call.
C18_Original ==
    \A p \in MainProcs :
        (/\ WriteCommand(p)
         /\ \E i \in 1..Len(args[p].specs) :
                Separators(args[p].specs[i]) # 1) =>
            /\ args[p].op = "rejected"
            /\ ret[p].err = "InvalidInput"
            /\ calls[p] = <<>>

\* C18: a write command with a tag specification that has no "=" is
\* rejected with InvalidInput and makes no remote call; a specification
\* with one "=" or more is accepted and split at its first "=": the key is
\* what stands before it, the value all that stands after it.
C18_TagFormat ==
    \A p \in MainProcs :
        WriteCommand(p) =>
            LET specs == args[p].specs
            IN  /\ (\E i \in 1..Len(specs) : Separators(specs[i]) = 0) =>
                    /\ args[p].op = "rejected"
                    /\ pc[p] = "done"
                    /\ ret[p].err = "InvalidInput"
                    /\ calls[p] = <<>>
                    /\ store = pre[p]
                /\ (/\ args[p].value # ""
                    /\ \A i \in 1..Len(specs) : Separators(specs[i]) >= 1) =>
                    /\ args[p].op = "write"
                    /\ \A i \in 1..Len(specs) :
                        LET k == IndexOf(specs[i], "=")
                            key == SubSeq(specs[i], 1, k - 1)
                            val == SubSeq(specs[i], k + 1, Len(specs[i]))
                        IN  (\A j \in (i + 1)..Len(specs) :
                                SubSeq(specs[j], 1,
                                       IndexOf(specs[j], "=") - 1) # key)
                            => <<key, val>> \in args[p].tags

\* A write whose tag specification has two "=" went through: the tag value
\* holds the second "=", and the tags were set on the path.
C18_Witness ==
    \E p \in MainProcs :
        /\ args[p].op = "write" /\ pc[p] = "done" /\ ret[p].err = ""
        /\ \E i \in 1..Len(args[p].specs) : Separators(args[p].specs[i]) = 2
        /\ <<"o">> \in { t[1] : t \in args[p].tags }
        /\ << <<"o">>, <<"x","=","y">> >> \in store[args[p].path].tags

\* initConfig has merged the key of px.
Merged == px.fn = "initConfig" /\ px.stage = "effective"

\* C19: the effective value of each key is the flag's value when the flag is
\* given on the command line, else the value of the LOCKR_ variable when it
\* is set (to a non-empty value), else the value of the config file when it
\* sets the key, else the default.
C19_Precedence ==
    Merged =>
        px.effective =
            IF px.flag.set THEN px.flag.val
            ELSE IF px.envvar.set /\ px.envvar.val # "" THEN px.envvar.val
            ELSE IF px.file.set THEN px.file.val
            ELSE DefaultOf(px.key)

\* What does hold: for prefix, env and region the precedence is kept as long
\* as a given flag is not empty; output is the flag's value, or "text"
\* when the flag is not given or empty.
C19_Effective ==
    Merged =>
        /\ (px.key # "output" /\ (px.flag.set => px.flag.val # "")) =>
              px.effective =
                  IF px.flag.set THEN px.flag.val
                  ELSE Load(px.key, px.file, px.envvar)
        /\ (px.key = "output" /\ ~px.flag.set) => px.effective = "text"
        /\ (px.flag.set /\ px.flag.val # "") => px.effective = px.flag.val

\* The invocation is a list command or a path-less read command.
ListingCommand(p) == args[p].op \in {"runList", "search"}

\* The listing of the invocation is complete and returned no items: every
\* page fetch succeeded, the last page carried no continuation, and no page
\* carried an item.
ListingEmpty(p) ==
    LET IsPage(c) == c.op = "GetParametersByPath"
        pages     == SelectSeq(calls[p], IsPage)
    IN  /\ pc[p] # "l_loop"
        /\ Len(pages) >= 1
        /\ \A i \in 1..Len(pages) :
            pages[i].res = "ok" /\ pages[i].items = <<>>
        /\ ~pages[Len(pages)].more

\* C20: when the listing of a list command or of a path-less read command
\* returned no items, the selector is never shown, nothing is selected, no
\* read call is made, and the command ends without error having reported
\* that no secrets were found.
C20_EmptyListing ==
    \A p \in MainProcs :
        (ListingCommand(p) /\ ListingEmpty(p)) =>
            /\ pc[p] \in {"listed", "done"}
            /\ loc[p].selector = "none"
            /\ loc[p].selected = <<>>
            /\ \A i \in 1..Len(calls[p]) :
                calls[p][i].op = "GetParametersByPath"
            /\ pc[p] = "done" =>
                /\ ret[p].err = ""
                /\ loc[p].report = "no-secrets"

\* A path-less read found nothing after a listing of two empty pages and
\* ended; an interactive list command ended the same way on a store that
\* holds secrets elsewhere.
C20_Witness ==
    \E p \in MainProcs :
        /\ ListingCommand(p) /\ ListingEmpty(p)
        /\ pc[p] = "done" /\ ret[p].err = ""
        /\ loc[p].report = "no-secrets"
        /\ \/ args[p].op = "search" /\ Len(calls[p]) = 2
           \/ /\ args[p].op = "runList" /\ args[p].interactive
              /\ args[p].output = "text"
              /\ \E q \in Paths : store[q].present

\* The calls of the invocation that are not page fetches of the listing.
ReadCalls(p) ==
    LET IsRead(c) == c.op # "GetParametersByPath"
    IN  SelectSeq(calls[p], IsRead)

\* C21: a cancelled selector is the outcome "no selection": the command has
\* ended without error and with nothing selected, and the path-less read has
\* made no read call; it differs from a selection, which names a listed
\* secret, and from a failure, which carries an error.
C21_Cancel ==
    \A p \in MainProcs :
        ListingCommand(p) =>
            /\ loc[p].selector = "cancelled" =>
                /\ pc[p] = "done"
                /\ ret[p].err = ""
                /\ loc[p].selected = <<>>
                /\ ReadCalls(p) = <<>>
                /\ store = pre[p]
            /\ loc[p].selector = "picked" =>
                /\ loc[p].selected # <<>>
                /\ \E i \in 1..Len(calls[p]) :
                       \E j \in 1..Len(calls[p][i].items) :
                           calls[p][i].items[j].name = loc[p].selected
            /\ (pc[p] = "done" /\ ret[p].err # "") =>
                loc[p].selector # "cancelled"

\* The selector of a path-less read was cancelled over a listing of two
\* secrets.
C21_Witness ==
    \E p \in MainProcs :
        /\ args[p].op = "search" /\ pc[p] = "done"
        /\ loc[p].selector = "cancelled"
        /\ Len(ret[p].list) = 2
        /\ ret[p].err = ""

\* The positions in cs of the puts and of the tag-set calls.
PutsAt(cs) == { i \in 1..Len(cs) : cs[i].op = "PutParameter" }
TagSetsAt(cs) == { i \in 1..Len(cs) : cs[i].op = "AddTagsToResource" }

\* The calls of a write, in every state of every execution: a tag-set call
\* comes after a put that succeeded and no put comes after it, no put
\* carries tags, there are at most two puts and at most one tag-set call,
\* and after the put and before the tag-set call the store holds the new
\* value under the tags it had.
C22_CallOrder ==
    \A p \in MainProcs :
        args[p].op = "write" =>
            LET cs   == calls[p]
                path == args[p].path
            IN  /\ \A i \in 1..Len(cs) : i \in PutsAt(cs) \cup TagSetsAt(cs)
                /\ \A t \in TagSetsAt(cs) :
                    /\ \E i \in PutsAt(cs) : i < t /\ cs[i].res = "ok"
                    /\ \A i \in PutsAt(cs) : i < t
                    /\ cs[t].path = path
                /\ \A i \in PutsAt(cs) : cs[i].tags = {} /\ cs[i].path = path
                /\ Cardinality(PutsAt(cs)) <= 2
                /\ Cardinality(TagSetsAt(cs)) <= 1
                /\ pc[p] = "w_tags" =>
                    /\ TagSetsAt(cs) = {}
                    /\ store[path].value = args[p].value
                    /\ store[path].version = pre[p][path].version + 1
                    /\ store[path].tags = pre[p][path].tags

\* One step of a write changes the value and version of its path or the
\* tags of its path, never both.
C22_OneStepEach ==
    \A p \in MainProcs :
        (args[p].op = "write" /\ pc[p] \in {"w_put", "w_put1", "w_put2", "w_tags"}) =>
            LET path == args[p].path
            IN  ~(/\ store'[path].tags # store[path].tags
                  /\ store'[path].version # store[path].version)

\* C22: in every execution of write, over all outcomes of the remote calls,
\* a tag-set call is issued only after a put of the invocation succeeded, no
\* put is issued after the tag-set call, no put carries tags, at most two
\* puts and one tag-set call are issued; the value write and the tag write
\* are two steps, with the written value observable in between.
C22_TwoSteps ==
    /\ []C22_CallOrder
    /\ [][C22_OneStepEach]_vars

\* The partial failure between the two steps: both puts of a tagged
\* overwrite were issued, the retry succeeded, and the tag-set call failed;
\* the store holds the new value without the new tags.
C22_Witness ==
    \E p \in MainProcs :
        /\ args[p].op = "write" /\ pc[p] = "done"
        /\ Len(calls[p]) = 3
        /\ calls[p][1].res = "AlreadyExists"
        /\ calls[p][2].res = "ok"
        /\ calls[p][3].op = "AddTagsToResource" /\ calls[p][3].res = "Other"
        /\ ret[p].err = "Other"
        /\ store[args[p].path].value = args[p].value
        /\ \E t \in args[p].tags : t \notin store[args[p].path].tags

\* Both invocations are writes with tags and overwrite = false to one path,
\* and no call of either has failed in transit.
Racing ==
    /\ \A p \in Procs :
        /\ args[p].op = "write" /\ args[p].tags # {}
        /\ ~args[p].overwrite
        /\ NoTransitFailure(calls[p])
    /\ args[1].path = args[2].path

\* C23: of two concurrent writes with tags and overwrite = false to one path
\* that is absent at first, with no store failures and in every
\* interleaving, the invocation whose put fails with AlreadyExists returns
\* that error and issues no tag-set call; when both have ended exactly one
\* has succeeded, and the stored value and tags are those of that one.
C23_Race ==
    Racing =>
        /\ \A p \in Procs :
            (calls[p] # <<>> /\ calls[p][1].res = "AlreadyExists") =>
                /\ pc[p] = "done"
                /\ ret[p].err = "AlreadyExists"
                /\ Len(calls[p]) = 1
        /\ (\A p \in Procs : pc[p] = "done") =>
            \E w \in Procs :
                /\ ret[w].err = ""
                /\ \A l \in Procs \ {w} :
                    /\ ret[l].err = "AlreadyExists"
                    /\ TagSetsAt(calls[l]) = {}
                /\ store[args[w].path].present
                /\ store[args[w].path].value = args[w].value
                /\ store[args[w].path].tags = args[w].tags
                /\ store[args[w].path].version = 1

\* Both invocations had started before either put; the first won and set
\* its tags, the second lost; the two wrote different values and tags.
C23_Witness ==
    /\ Racing
    /\ \A p \in Procs : pc[p] = "done"
    /\ args[1].value # args[2].value
    /\ args[1].tags # args[2].tags
    /\ ret[1].err = "" /\ ret[2].err = "AlreadyExists"
    /\ ~pre[2][args[2].path].present
    /\ Len(calls[1]) = 2 /\ Len(calls[2]) = 1

====
